---- MODULE Spec2Model ----
(***************************************************************************)
(* Preference-triplet extraction of dpo-align-llms-with-TRL.ipynb:         *)
(* rec_extract_assistant_messages and create_triplets, executed statement  *)
(* by statement on one dataset row (Spec) and on the rows of a dataset     *)
(* (MapSpec), and the cells that prepare the dataset and hand it to the    *)
(* trainer, statement by statement on whole datasets (PrepSpec).           *)
(***************************************************************************)
EXTENDS Integers, Sequences, FiniteSets, TLC

\* Longest conversation of a dataset row that is explored.
MaxLen == 3

\* Largest number of rows of a dataset that is mapped.
MaxRows == 3

\* Largest seed of the random shuffles that is explored.
MaxSeed == 1

\* dataset.shuffle().select(range(13750)): the number of rows selected.
SelectCount == 13750

\* train_test_split(test_size=2750/13750): the numerator of test_size.
TestNumer == 2750

\* Slip: the test rows are divided by the number of training rows.
TestDenom_TrainRows == SelectCount - TestNumer

\* train_test_split(test_size=2750/13750): the denominator of test_size.
TestDenom == 13750

\* prompt_length = 1024, passed as max_prompt_length.
prompt_length == 1024

\* max_seq_length = 1512, passed as max_length.
max_seq_length == 1512

\* DEFAULT_SYSTEM_MESSAGE, the default of create_triplets' third parameter.
DEFAULT_SYSTEM_MESSAGE == "You are Dolphin, a helpful AI assistant."

\* The value of a message, a dict {"role": ..., "content": ...}.
Msg(r, c) == [role |-> r, content |-> c]

\* The message values a conversation of a row is built from.
Messages ==
  { Msg("system", "Be terse."), Msg("user", "Hi"),
    Msg("assistant", "Hello!"), Msg("assistant", "Hi.") }

\* A message object: a dict with its value and its identity. Two dicts with
\* equal role and content at different places are different objects; a list
\* copy holds the same objects as the list it was copied from.
Obj(m, k, i) == [role |-> m.role, content |-> m.content, id |-> <<k, i>>]

\* The list of message objects stored under key k for the values c.
Row(c, k) == [i \in 1..Len(c) |-> Obj(c[i], k, i)]

\* The dict create_triplets builds for the system message it inserts.
NewSystemMessage(text) == Obj(Msg("system", text), "new", 0)

\* Texts passed as default_system_message: the default, and a text that
\* collides with a system message of the data.
SystemTexts == { DEFAULT_SYSTEM_MESSAGE, "Be terse." }

\* The conversations of a row: lists of messages, the empty list included.
Conversations == UNION { [1..n -> Messages] : n \in 0..MaxLen }

\* The keys a row can have.
Keys == {"chosen", "rejected"}

\* A row: a dict that holds, under each key of K, its conversation.
Example(K, c, r) == [k \in K |-> Row(IF k = "chosen" THEN c ELSE r, k)]

\* The conversations to choose from for key k of a row with the keys K.
Choices(K, k) == IF k \in K THEN Conversations ELSE {<<>>}

\* The rows a mapped dataset is built from: well-formed rows without and
\* with a system message, a rejected branch without assistant turn, a chosen
\* branch with a trailing user turn, branches with different leading turns,
\* an empty chosen branch, a row without "rejected" and a row without any
\* key.
PoolRows ==
  LET hi    == Msg("user", "Hi")
      terse == Msg("system", "Be terse.")
      good  == Msg("assistant", "Hello!")
      worse == Msg("assistant", "Hi.")
  IN { Example(Keys, <<hi, good>>, <<hi, worse>>),
       Example(Keys, <<terse, hi, good>>, <<terse, hi, worse>>),
       Example(Keys, <<hi, good>>, <<hi>>),
       Example(Keys, <<good, hi>>, <<hi, worse>>),
       Example(Keys, <<hi, good>>, <<terse, hi, worse>>),
       Example(Keys, <<>>, <<hi, worse>>),
       Example({"chosen"}, <<hi, good>>, <<>>),
       Example({}, <<>>, <<>>) }

\* ---------------------------------------------------------------------
\* Python list primitives used by the two functions.

\* 0 <= i < len(l) after a negative i has been offset by len(l).
PyInRange(l, i) == (i >= 0 /\ i < Len(l)) \/ (i < 0 /\ -i <= Len(l))

\* l[i] for an index in range (negative indices count from the end).
PyGetItem(l, i) == IF i >= 0 THEN l[i + 1] ELSE l[Len(l) + i + 1]

\* Slip: no slice is taken and the name is bound to the row's own list.
PySliceObject_SameList == "chosen"

\* The list object l[:-1] evaluates to: a new list, not the list sliced.
PySliceObject == "new"

\* Slip: the slice is forgotten and the whole list is copied.
PySliceButLast_WholeList(l) == l

\* l[:-1], a new list holding all elements but the last ([] for []).
PySliceButLast(l) == SubSeq(l, 1, Len(l) - 1)

\* Slip: append(x) in place of insert(0, x).
PyInsertFront_Append(l, x) == l \o <<x>>

\* l.insert(0, x)
PyInsertFront(l, x) == <<x>> \o l

\* Slip: any role but "user" is taken for the assistant's.
IsAssistantAt_NotUser(msgs, i) == PyGetItem(msgs, i).role # "user"

\* messages[index]["role"] == "assistant"
IsAssistantAt(msgs, i) == PyGetItem(msgs, i).role = "assistant"

\* Slip: the prompt is cut from the rejected branch.
PromptBranch_Rejected == "rejected"

\* The key of the branch the prompt is cut from: example["chosen"][:-1].
PromptBranch == "chosen"

\* Slip: the recursion moves towards the end of the list.
NextIndex_Forward(i) == i + 1

\* index-1, the index the recursive call is made with.
NextIndex(i) == i - 1

\* Slip: the comparison is inverted.
LacksSystemStart_Inverted(conv) == PyGetItem(conv, 0).role = "system"

\* Slip: the last message is inspected in place of the first.
LacksSystemStart_LastMessage(conv) == PyGetItem(conv, -1).role # "system"

\* example["chosen"][0]["role"] != "system"
LacksSystemStart(conv) == PyGetItem(conv, 0).role # "system"

\* The ChatML rendering the tokenizer's template gives a list of messages.
RECURSIVE apply_chat_template(_)
apply_chat_template(msgs) ==
  IF msgs = <<>> THEN <<>>
  ELSE <<"<|im_start|>", Head(msgs).role, "\n", Head(msgs).content,
         "<|im_end|>", "\n">> \o apply_chat_template(Tail(msgs))

\* ---------------------------------------------------------------------
VARIABLES
  example,                  \* the row passed to create_triplets
  default_system_message,   \* create_triplets' parameter
  pc,                       \* the statement create_triplets is at
  prompt_messages,          \* local of create_triplets
  prompt_list,              \* the list object prompt_messages is bound to
  chosen_messages,          \* local of create_triplets
  rejected_messages,        \* local of create_triplets
  messages,                 \* parameter of rec_extract_assistant_messages
  index,                    \* parameter of rec_extract_assistant_messages
  result,                   \* the dict create_triplets returned
  error,                    \* the exception that left create_triplets
  dataset,                  \* the rows create_triplets is mapped over
  out,                      \* the outcome of the call on each row
  current,                  \* the row of the call in progress, 0 for none
  hub,                      \* the dataset on the hub and the seeds drawn
  cell,                     \* the statement the notebook is at
  prep_error,               \* the exception that stopped the notebook
  records,                  \* `dataset` after shuffle().select(...)
  triplets,                 \* `dataset` after map(create_triplets)
  splits,                   \* `dataset` after train_test_split
  files,                    \* train_dataset.json and test_dataset.json
  loaded,                   \* train_dataset and eval_dataset
  trainer                   \* the arguments DPOTrainer was built with

\* What belongs to the cells around the map.
prepVars == <<hub, cell, prep_error, records, triplets, splits, files, loaded,
              trainer>>

\* What belongs to the caller of create_triplets.
callerVars == <<dataset, out, current, prepVars>>

vars == <<example, default_system_message, pc, prompt_messages, prompt_list,
          chosen_messages, rejected_messages, messages, index, result,
          error, callerVars>>

NoResult == <<>>

\* No dataset on disk, none written.
NoFiles == [train |-> <<>>, test |-> <<>>, written |-> {}]

\* No trainer built.
NoTrainer ==
  [built |-> FALSE, train_dataset |-> <<>>, eval_dataset |-> <<>>,
   max_length |-> 0, max_prompt_length |-> 0]

\* The cells around the map are not run.
PrepIdle ==
  /\ hub = [rows |-> 0, shuffle_seed |-> 0, split_seed |-> 0,
            odd_row |-> 0, odd_kind |-> "none"]
  /\ cell = "idle"
  /\ prep_error = "none"
  /\ records = <<>>
  /\ triplets = <<>>
  /\ splits = [train |-> <<>>, test |-> <<>>]
  /\ files = NoFiles
  /\ loaded = [train_dataset |-> <<>>, eval_dataset |-> <<>>]
  /\ trainer = NoTrainer

Init ==
  /\ \E K \in SUBSET Keys :
       \E c \in Choices(K, "chosen"), r \in Choices(K, "rejected") :
         example = Example(K, c, r)
  /\ default_system_message \in SystemTexts
  /\ pc = "slice"
  /\ prompt_messages = <<>>
  /\ prompt_list = "none"
  /\ chosen_messages = <<>>
  /\ rejected_messages = <<>>
  /\ messages = <<>>
  /\ index = -1
  /\ result = NoResult
  /\ error = "none"
  /\ dataset = <<>>
  /\ out = <<>>
  /\ current = 0
  /\ PrepIdle

Running == error = "none"

\* prompt_messages = example["chosen"][:-1]
Slice ==
  /\ Running /\ pc = "slice"
  /\ IF PromptBranch \notin DOMAIN example
       THEN /\ error' = "KeyError"
            /\ UNCHANGED <<pc, prompt_messages, prompt_list>>
       ELSE /\ prompt_messages' = PySliceButLast(example[PromptBranch])
            /\ prompt_list' = PySliceObject
            /\ pc' = "check_system"
            /\ UNCHANGED error
  /\ UNCHANGED <<example, default_system_message, chosen_messages,
                 rejected_messages, messages, index, result, callerVars>>

\* if example["chosen"][0]["role"] != "system": prompt_messages.insert(0, ...)
CheckSystem ==
  /\ Running /\ pc = "check_system"
  /\ IF ~PyInRange(example["chosen"], 0)
       THEN /\ error' = "IndexError"
            /\ UNCHANGED <<pc, prompt_messages, example>>
       ELSE /\ prompt_messages' =
                 IF LacksSystemStart(example["chosen"])
                   THEN PyInsertFront(prompt_messages,
                                      NewSystemMessage(default_system_message))
                   ELSE prompt_messages
            \* insert() changes the list object in place: every name bound
            \* to that object sees the change.
            /\ example' =
                 IF LacksSystemStart(example["chosen"]) /\ prompt_list = "chosen"
                   THEN [example EXCEPT !["chosen"] =
                           PyInsertFront(@,
                             NewSystemMessage(default_system_message))]
                   ELSE example
            /\ pc' = "call_chosen"
            /\ UNCHANGED error
  /\ UNCHANGED <<default_system_message, prompt_list, chosen_messages,
                 rejected_messages, messages, index, result, callerVars>>

\* rec_extract_assistant_messages(example["chosen"]): enter with index=-1
CallChosen ==
  /\ Running /\ pc = "call_chosen"
  /\ messages' = example["chosen"]
  /\ index' = -1
  /\ pc' = "in_chosen"
  /\ UNCHANGED <<example, default_system_message, prompt_messages,
                 prompt_list, chosen_messages, rejected_messages, result,
                 error, callerVars>>

\* rec_extract_assistant_messages(example["rejected"]): enter with index=-1
CallRejected ==
  /\ Running /\ pc = "call_rejected"
  /\ IF "rejected" \notin DOMAIN example
       THEN /\ error' = "KeyError"
            /\ UNCHANGED <<pc, messages, index>>
       ELSE /\ messages' = example["rejected"]
            /\ index' = -1
            /\ pc' = "in_rejected"
            /\ UNCHANGED error
  /\ UNCHANGED <<example, default_system_message, prompt_messages,
                 prompt_list, chosen_messages, rejected_messages, result,
                 callerVars>>

\* One level of rec_extract_assistant_messages(messages, index).
RecExtract ==
  /\ Running /\ pc \in {"in_chosen", "in_rejected"}
  /\ IF ~PyInRange(messages, index)
       THEN /\ error' = "IndexError"
            /\ UNCHANGED <<pc, index, chosen_messages, rejected_messages>>
       ELSE IF IsAssistantAt(messages, index)
         THEN /\ IF pc = "in_chosen"
                   THEN /\ chosen_messages' = <<PyGetItem(messages, index)>>
                        /\ pc' = "call_rejected"
                        /\ UNCHANGED rejected_messages
                   ELSE /\ rejected_messages' = <<PyGetItem(messages, index)>>
                        /\ pc' = "return"
                        /\ UNCHANGED chosen_messages
              /\ UNCHANGED <<index, error>>
         ELSE /\ index' = NextIndex(index)
              /\ UNCHANGED <<pc, chosen_messages, rejected_messages, error>>
  /\ UNCHANGED <<example, default_system_message, prompt_messages,
                 prompt_list, messages, result, callerVars>>

\* Slip: the two responses are returned under each other's key.
Return_SwappedFields ==
  /\ Running /\ pc = "return"
  /\ result' = [prompt   |-> apply_chat_template(prompt_messages),
                chosen   |-> apply_chat_template(rejected_messages),
                rejected |-> apply_chat_template(chosen_messages)]
  /\ pc' = "done"
  /\ UNCHANGED <<example, default_system_message, prompt_messages,
                 prompt_list, chosen_messages, rejected_messages, messages,
                 index, error, callerVars>>

\* return {"prompt": ..., "chosen": ..., "rejected": ...}
Return ==
  /\ Running /\ pc = "return"
  /\ result' = [prompt   |-> apply_chat_template(prompt_messages),
                chosen   |-> apply_chat_template(chosen_messages),
                rejected |-> apply_chat_template(rejected_messages)]
  /\ pc' = "done"
  /\ UNCHANGED <<example, default_system_message, prompt_messages,
                 prompt_list, chosen_messages, rejected_messages, messages,
                 index, error, callerVars>>

\* ---------------------------------------------------------------------
\* dataset.map(create_triplets, ...): create_triplets is called once on each
\* row, by one worker or by several; the rows are taken in any order, and the
\* failure of one call does not change what the calls on other rows do.

\* An outcome slot of a row no call has finished on.
Pending == [status |-> "pending", triplet |-> NoResult, error |-> "none"]

\* What the call in progress ended with: its return value or its exception.
Outcome ==
  [status  |-> IF Running THEN "ok" ELSE "raised",
   triplet |-> result,
   error   |-> error]

\* Slip: the exception of the call before is still pending in the new call.
NoException_Stale == error

\* The exception state a call starts in.
NoException == "none"

\* Slip: the row before the one asked for is handed to the function.
RowArg_Previous(i) == IF i > 1 THEN dataset[i - 1] ELSE dataset[i]

\* The row handed to the function for position i of the dataset.
RowArg(i) == dataset[i]

MapInit ==
  /\ \E n \in 1..MaxRows : dataset \in [1..n -> PoolRows]
  /\ out = [i \in 1..Len(dataset) |-> Pending]
  /\ current = 0
  /\ example = <<>>
  /\ default_system_message = DEFAULT_SYSTEM_MESSAGE
  /\ pc = "idle"
  /\ prompt_messages = <<>>
  /\ prompt_list = "none"
  /\ chosen_messages = <<>>
  /\ rejected_messages = <<>>
  /\ messages = <<>>
  /\ index = -1
  /\ result = NoResult
  /\ error = "none"
  /\ PrepIdle

\* create_triplets(row, tokenizer=tokenizer): a new call with its own locals
\* and the default default_system_message.
StartCall ==
  /\ current = 0
  /\ \E i \in 1..Len(dataset) :
       /\ out[i].status = "pending"
       /\ current' = i
       /\ example' = RowArg(i)
  /\ default_system_message' = DEFAULT_SYSTEM_MESSAGE
  /\ pc' = "slice"
  /\ prompt_messages' = <<>>
  /\ prompt_list' = "none"
  /\ chosen_messages' = <<>>
  /\ rejected_messages' = <<>>
  /\ messages' = <<>>
  /\ index' = -1
  /\ result' = NoResult
  /\ error' = NoException
  /\ UNCHANGED <<dataset, out, prepVars>>

\* The call returned or raised: the map has the row's outcome.
EndCall ==
  /\ current # 0
  /\ pc = "done" \/ ~Running
  /\ out' = [out EXCEPT ![current] = Outcome]
  /\ current' = 0
  /\ UNCHANGED <<example, default_system_message, pc, prompt_messages,
                 prompt_list, chosen_messages, rejected_messages, messages,
                 index, result, error, dataset, prepVars>>

Next ==
  \/ Slice
  \/ CheckSystem
  \/ CallChosen
  \/ CallRejected
  \/ RecExtract
  \/ Return

Spec == Init /\ [][Next]_vars

MapNext ==
  \/ StartCall
  \/ Slice
  \/ CheckSystem
  \/ CallChosen
  \/ CallRejected
  \/ RecExtract
  \/ Return
  \/ EndCall

MapSpec == MapInit /\ [][MapNext]_vars

\* ---------------------------------------------------------------------
\* The cells that prepare the dataset and build the trainer. A record is
\* named by its row number on the hub; its triplet carries the same number.
\* All records convert and are short, but for one odd record, the first row
\* of the hub (which the selection takes or leaves out).

Seeds == 0..MaxSeed

\* Sizes of the dataset on the hub: one row short of the selection, exactly
\* the selection, one row more.
HubSizes == {SelectCount - 1, SelectCount, SelectCount + 1}

\* What the odd record is like: as the others, without assistant turn in a
\* branch, with a prompt of more tokens than prompt_length, or with a prompt
\* and a response of together more tokens than max_seq_length.
OddKinds == {"none", "unconvertible", "long_prompt", "long_total"}

\* create_triplets returns a triplet for record r.
Convertible(r) == ~(r = hub.odd_row /\ hub.odd_kind = "unconvertible")

\* The token counts of the triplet of record r: of its prompt, and of the
\* longer of its two responses.
Tokens(r) ==
  IF r = hub.odd_row /\ hub.odd_kind = "long_prompt"
    THEN [prompt |-> prompt_length + 1, response |-> 1]
  ELSE IF r = hub.odd_row /\ hub.odd_kind = "long_total"
    THEN [prompt |-> prompt_length,
          response |-> max_seq_length - prompt_length + 1]
  ELSE [prompt |-> 1, response |-> 1]

\* dataset.shuffle().select(range(count)) on n rows: the first count rows of
\* a random order of the rows (here the rotation by seed).
ShuffleSelect(n, seed, count) ==
  [p \in 1..count |-> ((p - 1 + seed) % n) + 1]

\* The number of test rows train_test_split takes of n rows for a test_size
\* given as a fraction: ceil(test_size * n).
TestRows(n) == (TestNumer * n + TestDenom - 1) \div TestDenom

\* The row at place q (from 0) of the random order train_test_split puts the
\* rows of d in (here the rotation by seed).
Permuted(d, seed, q) == d[((q + seed) % Len(d)) + 1]

\* dataset.train_test_split(test_size=2750/13750): the first TestRows rows
\* of the random order are the test split, the others the train split.
TrainTestSplit(d, seed) ==
  LET n_test == TestRows(Len(d))
  IN  [test  |-> [q \in 1..n_test |-> Permuted(d, seed, q - 1)],
       train |-> [q \in 1..(Len(d) - n_test) |->
                    Permuted(d, seed, n_test + q - 1)]]

PrepInit ==
  /\ hub \in [rows : HubSizes, shuffle_seed : Seeds, split_seed : Seeds,
               odd_row : {1}, odd_kind : OddKinds]
  /\ cell = "select"
  /\ prep_error = "none"
  /\ records = <<>>
  /\ triplets = <<>>
  /\ splits = [train |-> <<>>, test |-> <<>>]
  /\ files = NoFiles
  /\ loaded = [train_dataset |-> <<>>, eval_dataset |-> <<>>]
  /\ trainer = NoTrainer
  /\ example = <<>>
  /\ default_system_message = DEFAULT_SYSTEM_MESSAGE
  /\ pc = "idle"
  /\ prompt_messages = <<>>
  /\ prompt_list = "none"
  /\ chosen_messages = <<>>
  /\ rejected_messages = <<>>
  /\ messages = <<>>
  /\ index = -1
  /\ result = NoResult
  /\ error = "none"
  /\ dataset = <<>>
  /\ out = <<>>
  /\ current = 0

\* What the cells leave alone: the state of a call of create_triplets.
callVars == <<example, default_system_message, pc, prompt_messages,
              prompt_list, chosen_messages, rejected_messages, messages,
              index, result, error, dataset, out, current>>

PrepRunning == prep_error = "none"

\* dataset = dataset.shuffle().select(range(13750))
Select ==
  /\ PrepRunning /\ cell = "select"
  /\ IF hub.rows < SelectCount
       THEN /\ prep_error' = "IndexError"
            /\ UNCHANGED <<cell, records>>
       ELSE /\ records' = ShuffleSelect(hub.rows, hub.shuffle_seed, SelectCount)
            /\ cell' = "map"
            /\ UNCHANGED prep_error
  /\ UNCHANGED <<hub, triplets, splits, files, loaded, trainer, callVars>>

\* dataset = dataset.map(create_triplets, ...): one triplet for each record,
\* in the order of the records; the exception of a call stops the map.
MapAll ==
  /\ PrepRunning /\ cell = "map"
  /\ IF \E p \in 1..Len(records) : ~Convertible(records[p])
       THEN /\ prep_error' = "IndexError"
            /\ UNCHANGED <<cell, triplets>>
       ELSE /\ triplets' = records
            /\ cell' = "split"
            /\ UNCHANGED prep_error
  /\ UNCHANGED <<hub, records, splits, files, loaded, trainer, callVars>>

\* dataset = dataset.train_test_split(test_size=2750/13750)
Split ==
  /\ PrepRunning /\ cell = "split"
  /\ splits' = TrainTestSplit(triplets, hub.split_seed)
  /\ cell' = "write_train"
  /\ UNCHANGED <<hub, prep_error, records, triplets, files, loaded, trainer,
                 callVars>>

\* dataset["train"].to_json("train_dataset.json", orient="records")
WriteTrain ==
  /\ PrepRunning /\ cell = "write_train"
  /\ files' = [files EXCEPT !.train = splits.train,
                            !.written = @ \cup {"train_dataset.json"}]
  /\ cell' = "write_test"
  /\ UNCHANGED <<hub, prep_error, records, triplets, splits, loaded, trainer,
                 callVars>>

\* dataset["test"].to_json("test_dataset.json", orient="records")
WriteTest ==
  /\ PrepRunning /\ cell = "write_test"
  /\ files' = [files EXCEPT !.test = splits.test,
                            !.written = @ \cup {"test_dataset.json"}]
  /\ cell' = "load"
  /\ UNCHANGED <<hub, prep_error, records, triplets, splits, loaded, trainer,
                 callVars>>

\* train_dataset = load_dataset("json", data_files="train_dataset.json", ...)
\* eval_dataset = load_dataset("json", data_files="test_dataset.json", ...)
LoadFiles ==
  /\ PrepRunning /\ cell = "load"
  /\ loaded' = [train_dataset |-> files.train, eval_dataset |-> files.test]
  /\ cell' = "trainer"
  /\ UNCHANGED <<hub, prep_error, records, triplets, splits, files, trainer,
                 callVars>>

\* trainer = DPOTrainer(model, ..., train_dataset=train_dataset,
\*   eval_dataset=eval_dataset, max_length=max_seq_length,
\*   max_prompt_length=prompt_length, ...)
BuildTrainer ==
  /\ PrepRunning /\ cell = "trainer"
  /\ trainer' = [built |-> TRUE,
                 train_dataset |-> loaded.train_dataset,
                 eval_dataset |-> loaded.eval_dataset,
                 max_length |-> max_seq_length,
                 max_prompt_length |-> prompt_length]
  /\ cell' = "train"
  /\ UNCHANGED <<hub, prep_error, records, triplets, splits, files, loaded,
                 callVars>>

PrepNext ==
  \/ Select
  \/ MapAll
  \/ Split
  \/ WriteTrain
  \/ WriteTest
  \/ LoadFiles
  \/ BuildTrainer

PrepSpec == PrepInit /\ [][PrepNext]_vars

TypeOK ==
  /\ DOMAIN example \subseteq Keys
  /\ default_system_message \in SystemTexts
  /\ pc \in {"idle", "slice", "check_system", "call_chosen", "in_chosen",
             "call_rejected", "in_rejected", "return", "done"}
  /\ prompt_list \in {"none", "new", "chosen"}
  /\ error \in {"none", "KeyError", "IndexError"}
  /\ index \in Int /\ index < 0

\* ---------------------------------------------------------------------
\* Vocabulary of the properties.

Range(s) == { s[i] : i \in 1..Len(s) }

\* The value of a message object.
Val(m) == Msg(m.role, m.content)

\* The values of a list of message objects.
Vals(s) == [i \in 1..Len(s) |-> Val(s[i])]

HasAssistant(conv) == \E i \in 1..Len(conv) : conv[i].role = "assistant"

HasKey(k) == k \in DOMAIN example

\* create_triplets returned a triplet.
Succeeded == pc = "done"

\* The call rec_extract_assistant_messages(example["chosen"]) has returned.
ChosenReturned ==
  Running /\ pc \in {"call_rejected", "in_rejected", "return", "done"}

\* The call rec_extract_assistant_messages(example["rejected"]) has returned.
RejectedReturned == Running /\ pc \in {"return", "done"}

\* An exception left the extraction call that is scanning `messages`.
ExtractionFailed == pc \in {"in_chosen", "in_rejected"} /\ error # "none"

\* ret holds exactly the assistant message of conv closest to its end.
IsLastAssistantOf(conv, ret) ==
  /\ Len(ret) = 1
  /\ \E i \in 1..Len(conv) :
       /\ conv[i] = ret[1]
       /\ conv[i].role = "assistant"
       /\ \A j \in (i + 1)..Len(conv) : conv[j].role # "assistant"

\* Number of positions of s that hold a message of the value of m.
Count(m, s) == Cardinality({ i \in 1..Len(s) : Val(s[i]) = Val(m) })

\* The message create_triplets synthesizes.
Synthesized == NewSystemMessage(default_system_message)


\* The chosen conversation starts with a system message.
StartsWithSystem ==
  /\ HasKey("chosen")
  /\ Len(example["chosen"]) > 0
  /\ example["chosen"][1].role = "system"

\* All messages of conv but the last, position by position.
AllButLast(conv) == [i \in 1..(Len(conv) - 1) |-> conv[i]]

\* ---------------------------------------------------------------------
\* C1: on a conversation with at least one assistant message the extraction
\* does not fail, and what it returns is the assistant message at the
\* greatest position: every later message has another role.
C1_LastAssistant ==
  /\ ChosenReturned => IsLastAssistantOf(example["chosen"], chosen_messages)
  /\ RejectedReturned =>
       IsLastAssistantOf(example["rejected"], rejected_messages)
  /\ (pc \in {"in_chosen", "in_rejected"} /\ HasAssistant(messages)) =>
       error = "none"

\* The extraction skipped a trailing user turn and had two different
\* assistant messages to choose from.
C1_Witness ==
  /\ Succeeded
  /\ Vals(example["chosen"]) =
       <<Msg("assistant", "Hello!"), Msg("assistant", "Hi."), Msg("user", "Hi")>>
  /\ chosen_messages = <<example["chosen"][2]>>
  /\ Vals(example["rejected"]) =
       <<Msg("assistant", "Hi."), Msg("system", "Be terse.")>>
  /\ rejected_messages = <<example["rejected"][1]>>

\* C2: on a non-empty conversation without assistant message the extraction
\* fails with MalformedConversationError: it returns nothing and raises no
\* other error.
C2_MalformedError ==
  /\ (ExtractionFailed /\ messages # <<>> /\ ~HasAssistant(messages)) =>
       error = "MalformedConversationError"
  /\ (ChosenReturned /\ example["chosen"] # <<>>) =>
       HasAssistant(example["chosen"])
  /\ (RejectedReturned /\ example["rejected"] # <<>>) =>
       HasAssistant(example["rejected"])

\* C3: when the chosen conversation does not begin with a system message, the
\* returned prompt begins with the synthesized system message, exactly one
\* message was added, and every other message of it is one of the chosen
\* conversation.
C3_PrependsDefault ==
  (Succeeded /\ ~StartsWithSystem) =>
    /\ prompt_messages # <<>>
    /\ prompt_messages[1] = Synthesized
    /\ Len(prompt_messages) = Len(example["chosen"])
    /\ \A i \in 2..Len(prompt_messages) :
         prompt_messages[i] \in Range(example["chosen"])

\* A triplet of a chosen conversation that starts with a user turn.
C3_Witness ==
  /\ Succeeded
  /\ Len(example["chosen"]) = 3
  /\ example["chosen"][1].role = "user"
  /\ Val(prompt_messages[1]) = Msg("system", DEFAULT_SYSTEM_MESSAGE)

\* C4: when the chosen conversation begins with a system message, the prompt
\* begins with that message, no message is added, and that message occurs in
\* the prompt as often as in the chosen conversation's leading turns.
C4_KeepsSystem ==
  (Succeeded /\ StartsWithSystem) =>
    /\ prompt_messages # <<>>
    /\ prompt_messages[1] = example["chosen"][1]
    /\ Len(prompt_messages) = Len(example["chosen"]) - 1
    /\ Count(example["chosen"][1], prompt_messages) =
         Count(example["chosen"][1], AllButLast(example["chosen"]))

\* A triplet of a chosen conversation whose system message has the very text
\* of the default.
C4_Witness ==
  /\ Succeeded
  /\ StartsWithSystem
  /\ Len(example["chosen"]) = 3
  /\ example["chosen"][1].content = default_system_message

\* C5: the prompt of a triplet is non-empty and its first message has role
\* "system".
C5_PromptStartsWithSystem ==
  Succeeded => /\ prompt_messages # <<>>
               /\ prompt_messages[1].role = "system"

\* A triplet of a chosen conversation of one message.
C5_Witness ==
  /\ Succeeded
  /\ Len(example["chosen"]) = 1
  /\ Len(prompt_messages) = 1

\* C6: the prompt of a triplet contains neither the message returned as
\* chosen nor the message returned as rejected.
C6_PromptExcludesFinalAssistant ==
  Succeeded => /\ chosen_messages[1] \notin Range(prompt_messages)
               /\ rejected_messages[1] \notin Range(prompt_messages)

\* C7: the prompt followed by the chosen message is the chosen conversation,
\* preceded by the synthesized system message when it did not start with one.
C7_PromptPlusChosenReconstructs ==
  Succeeded =>
    prompt_messages \o chosen_messages =
      (IF StartsWithSystem THEN example["chosen"]
                           ELSE <<Synthesized>> \o example["chosen"])

\* C8: the prompt without the synthesized system message is the chosen
\* conversation without its last message, in order; the rejected conversation
\* contributes nothing to it.
C8_PromptIsChosenButLast ==
  Succeeded =>
    /\ (IF StartsWithSystem THEN prompt_messages ELSE Tail(prompt_messages))
         = AllButLast(example["chosen"])
    /\ Range(prompt_messages) \subseteq
         Range(example["chosen"]) \cup {Synthesized}

\* A triplet whose rejected conversation holds messages the chosen one lacks.
C8_Witness ==
  /\ Succeeded
  /\ Len(example["chosen"]) = 3
  /\ example["chosen"][3].role = "user"
  /\ \E m \in Range(example["rejected"]) :
       m \notin Range(example["chosen"]) /\ m \notin Range(prompt_messages)

\* C9: an example that lacks "chosen" or "rejected", or whose chosen or
\* rejected conversation is empty, yields no triplet and fails with
\* MissingFieldError.
C9_MissingFieldError ==
  (\/ ~HasKey("chosen")
   \/ ~HasKey("rejected")
   \/ example["chosen"] = <<>>
   \/ example["rejected"] = <<>>) =>
    /\ ~Succeeded
    /\ error \in {"none", "MissingFieldError"}

\* C10: an example with a non-empty conversation that has no assistant
\* message yields no triplet and fails with MalformedConversationError.
C10_MalformedPropagates ==
  (/\ HasKey("chosen") /\ HasKey("rejected")
   /\ example["chosen"] # <<>> /\ example["rejected"] # <<>>
   /\ (~HasAssistant(example["chosen"]) \/ ~HasAssistant(example["rejected"])))
  =>
    /\ ~Succeeded
    /\ result = NoResult
    /\ error \in {"none", "MalformedConversationError"}

\* C11: no step of a call, successful or failing, changes the example: its
\* chosen and rejected conversations keep their messages and their order;
\* inserting the system message into the prompt leaves example["chosen"] as
\* it was.
C11_InputsUnchanged == [][example' = example]_vars

\* The system message was inserted into the prompt, and the chosen
\* conversation of the example does not hold it.
C11_Witness ==
  /\ Succeeded
  /\ ~StartsWithSystem
  /\ Len(example["chosen"]) = 2
  /\ prompt_messages[1] = Synthesized
  /\ Synthesized \notin Range(example["chosen"])

\* ---------------------------------------------------------------------
\* Vocabulary of the properties about the results of calls.

\* The ChatML text of a list of messages, token by token.
ChatML(msgs) ==
  [k \in 1..(6 * Len(msgs)) |->
     LET m == msgs[((k - 1) \div 6) + 1]
         f == (k - 1) % 6
     IN  CASE f = 0 -> "<|im_start|>"
           [] f = 1 -> m.role
           [] f = 2 -> "\n"
           [] f = 3 -> m.content
           [] f = 4 -> "<|im_end|>"
           [] OTHER -> "\n"]

\* The assistant message of conv closest to its end.
LastAssistant(conv) ==
  conv[CHOOSE i \in 1..Len(conv) :
         /\ conv[i].role = "assistant"
         /\ \A j \in (i + 1)..Len(conv) : conv[j].role # "assistant"]

\* Two rows hold the same conversations under the same keys.
SameRow(a, b) ==
  /\ DOMAIN a = DOMAIN b
  /\ \A k \in DOMAIN a : a[k] = b[k]

\* Two finished calls ended the same way: the same triplet, or the same error.
SameOutcome(a, b) ==
  /\ a.status = b.status
  /\ a.error = b.error
  /\ a.status = "ok" =>
       /\ a.triplet.prompt = b.triplet.prompt
       /\ a.triplet.chosen = b.triplet.chosen
       /\ a.triplet.rejected = b.triplet.rejected

\* The rows a call has finished on.
Finished == { i \in 1..Len(out) : out[i].status # "pending" }

\* The rows a call returned a triplet for.
Converted == { i \in 1..Len(out) : out[i].status = "ok" }

\* The exception of a call on row alone, "none" if it returns.
ErrorAlone(row) ==
  IF "chosen" \notin DOMAIN row THEN "KeyError"
  ELSE IF row["chosen"] = <<>> THEN "IndexError"
  ELSE IF ~HasAssistant(row["chosen"]) THEN "IndexError"
  ELSE IF "rejected" \notin DOMAIN row THEN "KeyError"
  ELSE IF ~HasAssistant(row["rejected"]) THEN "IndexError"
  ELSE "none"

\* The messages of the prompt of a call on a row with chosen conversation
\* conv and the default text.
PromptAlone(conv, text) ==
  (IF conv[1].role = "system" THEN <<>> ELSE <<NewSystemMessage(text)>>)
    \o AllButLast(conv)

\* The outcome of a call on row alone, with the default text.
OutcomeAlone(row, text) ==
  IF ErrorAlone(row) # "none"
    THEN [status |-> "raised", triplet |-> NoResult, error |-> ErrorAlone(row)]
    ELSE [status  |-> "ok",
          triplet |->
            [prompt   |-> ChatML(PromptAlone(row["chosen"], text)),
             chosen   |-> ChatML(<<LastAssistant(row["chosen"])>>),
             rejected |-> ChatML(<<LastAssistant(row["rejected"])>>)],
          error   |-> "none"]

C13_TripletShape ==
  Succeeded =>
    /\ DOMAIN result = {"prompt", "chosen", "rejected"}
    /\ result.prompt = ChatML(prompt_messages)
    /\ Len(chosen_messages) = 1 /\ Len(rejected_messages) = 1
    /\ \E m \in Range(example["chosen"]) :
         m.role = "assistant" /\ result.chosen = ChatML(<<m>>)
    /\ \E m \in Range(example["rejected"]) :
         m.role = "assistant" /\ result.rejected = ChatML(<<m>>)

\* A triplet whose two responses differ and whose prompt has three messages.
C13_Witness ==
  /\ Succeeded
  /\ Len(result.prompt) = 18
  /\ Len(result.chosen) = 6 /\ Len(result.rejected) = 6
  /\ result.chosen[4] = "Hello!" /\ result.rejected[4] = "Hi."

\* The extraction call is scanning.
Scanning == pc \in {"in_chosen", "in_rejected"}

\* The number of messages under key k of the example, 0 without the key.
ConvLen(k) == IF HasKey(k) THEN Len(example[k]) ELSE 0

\* The statements of create_triplets still ahead, the current one included.
StatementsLeft ==
  CASE pc = "slice"         -> 7
    [] pc = "check_system"  -> 6
    [] pc = "call_chosen"   -> 5
    [] pc = "in_chosen"     -> 4
    [] pc = "call_rejected" -> 3
    [] pc = "in_rejected"   -> 2
    [] pc = "return"        -> 1
    [] OTHER                -> 0

\* A bound, linear in the size of the example, on the steps a call still
\* takes: a scan of n messages at index i has at most n + 2 + i tries left.
StepsLeft ==
  IF ~Running THEN 0
  ELSE StatementsLeft * (ConvLen("chosen") + ConvLen("rejected") + 2)
       + (IF Scanning THEN Len(messages) + 2 + index ELSE 0)

\* C14: a scan of n messages tries the indices -1, -2, ... in this order
\* (positions n-1, ..., 0), moves on only from a position it examined, never
\* to a position it left behind, and its try at index -(n+1) raises, so it
\* stops after at most n+1 tries; a call that has not ended can take a step
\* that changes its state, and every such step lowers a bound on the steps
\* left, so every call ends, by returning or by raising.
C14_ScanTerminates ==
  /\ [](Scanning => (index <= -1 /\ index >= -(Len(messages) + 1)))
  /\ [][(Scanning /\ index' # index) =>
          /\ index' = index - 1
          /\ PyInRange(messages, index)
          /\ messages' = messages]_vars
  /\ [][(Scanning /\ ~PyInRange(messages, index)) => error' # "none"]_vars
  /\ [](StepsLeft >= 0)
  /\ [][StepsLeft' < StepsLeft]_vars
  /\ []((Running /\ ~Succeeded) => ENABLED <<Next>>_vars)

\* A scan of three messages that tried all of them and raised at the fourth
\* try.
C14_Witness ==
  /\ pc = "in_rejected"
  /\ Len(messages) = 3
  /\ index = -4
  /\ error = "IndexError"

C18_BranchIndependence ==
  /\ \A i \in Converted : \A j \in Converted :
       /\ dataset[i]["chosen"] = dataset[j]["chosen"] =>
            /\ out[i].triplet.prompt = out[j].triplet.prompt
            /\ out[i].triplet.chosen = out[j].triplet.chosen
       /\ dataset[i]["rejected"] = dataset[j]["rejected"] =>
            out[i].triplet.rejected = out[j].triplet.rejected
  /\ \A i \in Converted :
       out[i].triplet.prompt =
         ChatML(PromptAlone(dataset[i]["chosen"], DEFAULT_SYSTEM_MESSAGE))

\* Two converted rows with the same chosen conversation and different
\* rejected conversations, one of which does not share the leading turns of
\* the chosen conversation.
C18_Witness ==
  \E i \in Converted : \E j \in Converted :
    /\ dataset[i]["chosen"] = dataset[j]["chosen"]
    /\ dataset[i]["rejected"] # dataset[j]["rejected"]
    /\ Vals(AllButLast(dataset[j]["rejected"])) #
         Vals(AllButLast(dataset[j]["chosen"]))
    /\ out[i].triplet.prompt = out[j].triplet.prompt
    /\ out[i].triplet.rejected = out[j].triplet.rejected

\* ---------------------------------------------------------------------
\* The split has been made.
SplitDone == cell \in {"write_train", "write_test", "load", "trainer", "train"}

\* C16: once the split is made, 13,750 records were selected and each has
\* its triplet; the train split has exactly 11,000 triplets and the test
\* split exactly 2,750, no triplet is in both or twice in one, and together
\* they hold the triplet of every selected record; a file is written only
\* once the map and the split are done, and holds its split.
C16_SplitSizes ==
  /\ [][splits' # splits =>
          /\ Len(records') = 13750
          /\ Range(triplets') = Range(records')
          /\ Len(splits'.train) = 11000
          /\ Len(splits'.test) = 2750
          /\ Cardinality(Range(splits'.train)) = 11000
          /\ Cardinality(Range(splits'.test)) = 2750
          /\ Range(splits'.train) \cap Range(splits'.test) = {}
          /\ Range(splits'.train) \cup Range(splits'.test) = Range(records')
       ]_vars
  /\ [][SplitDone => UNCHANGED <<records, triplets, splits>>]_vars
  /\ [](SplitDone => (Len(splits.train) = 11000 /\ Len(splits.test) = 2750))
  /\ [](files.written # {} => SplitDone)
  /\ []("train_dataset.json" \in files.written => files.train = splits.train)
  /\ []("test_dataset.json" \in files.written => files.test = splits.test)

\* Both files are written, of a hub dataset with a row more than selected and
\* with shuffles that are not the identity.
C16_Witness ==
  /\ files.written = {"train_dataset.json", "test_dataset.json"}
  /\ hub.rows = SelectCount + 1
  /\ hub.shuffle_seed = 1
  /\ hub.split_seed = 1
  /\ Len(files.train) = 11000

\* The triplet of record r fits the lengths the trainer was built with.
FitsTrainer(r) ==
  /\ Tokens(r).prompt <= trainer.max_prompt_length
  /\ Tokens(r).prompt + Tokens(r).response <= trainer.max_length

\* C17: every triplet of the datasets the trainer is built with has a prompt
\* of at most 1024 tokens and a prompt and response of together at most 1512
\* tokens: longer triplets were filtered out before.
C17_OverLengthFiltered ==
  trainer.built =>
    /\ \A i \in 1..Len(trainer.train_dataset) :
         FitsTrainer(trainer.train_dataset[i])
    /\ \A i \in 1..Len(trainer.eval_dataset) :
         FitsTrainer(trainer.eval_dataset[i])

====
